---- MODULE Spec2Model ----
(***************************************************************************)
(* One WebSocket connection of backend/server.js: processTranscript with   *)
(* its sentence queue and dispatcher loop, streamChatCompletion of         *)
(* services/openai.js and streamSarvamTTS of services/sarvam.js, together  *)
(* with the token-to-sentence segmenter of the onToken callback.           *)
(*                                                                         *)
(* Text is a sequence of one-character strings.  A step of the model is    *)
(* one run-to-completion block of the Node event loop: the code between    *)
(* two awaits that wait for a timer or for the network.                    *)
(***************************************************************************)
EXTENDS Integers, Sequences, FiniteSets, TLC

\* ------------------------------------------------------------------ bounds
MaxReq == 3        \* transcripts received on the connection
MaxChunks == 2     \* PCM chunks of one synthesized sentence
MaxLen == 4        \* length of the strings fed to the segmenter alone

Req == 1..MaxReq

\* ------------------------------------------------------------ text helpers
IsTerminal(c) == c \in {".", "!", "?"}
IsSpace(c) == c \in {" ", "\n"}

RECURSIVE Flatten(_)
Flatten(ss) == IF ss = <<>> THEN <<>> ELSE Head(ss) \o Flatten(Tail(ss))

\* String.prototype.trim
RECURSIVE TrimLeft(_)
TrimLeft(s) == IF s # <<>> /\ IsSpace(Head(s)) THEN TrimLeft(Tail(s)) ELSE s

RECURSIVE TrimRight(_)
TrimRight(s) ==
  IF s # <<>> /\ IsSpace(s[Len(s)]) THEN TrimRight(SubSeq(s, 1, Len(s) - 1)) ELSE s

Trim(s) == TrimRight(TrimLeft(s))

\* first index >= i of s that is not a terminal mark (Len(s)+1 if none)
RECURSIVE SkipTerminal(_, _)
SkipTerminal(s, i) ==
  IF i <= Len(s) /\ IsTerminal(s[i]) THEN SkipTerminal(s, i + 1) ELSE i

\* first index >= i of s that is not whitespace (Len(s)+1 if none)
RECURSIVE SkipSpace(_, _)
SkipSpace(s, i) ==
  IF i <= Len(s) /\ IsSpace(s[i]) THEN SkipSpace(s, i + 1) ELSE i

\* s.search(/[.!?]+(\s+|$)/), 1-based; 0 stands for -1
SentenceEndSearch(s) ==
  LET hits == {i \in 1..Len(s) :
                 /\ IsTerminal(s[i])
                 /\ LET e == SkipTerminal(s, i)
                    IN  e > Len(s) \/ IsSpace(s[e])}
  IN  IF hits = {} THEN 0 ELSE CHOOSE i \in hits : \A j \in hits : i <= j

\* OnToken without the trim() of the complete sentence
OnTokenNoTrim(buf, token) ==
  LET b == buf \o token
      match == SentenceEndSearch(b)
      sentenceEndIndex == SkipSpace(b, SkipTerminal(b, match)) - 1
  IN  IF match = 0
        THEN [buffer |-> b, pushed |-> <<>>]
        ELSE [buffer |-> SubSeq(b, sentenceEndIndex + 1, Len(b)),
              pushed |-> <<SubSeq(b, 1, sentenceEndIndex)>>]

\* the onToken callback: the buffer after the token and the sentence it pushes
OnToken(buf, token) ==
  LET b == buf \o token
      match == SentenceEndSearch(b)
      sentenceEndIndex == SkipSpace(b, SkipTerminal(b, match)) - 1
      completeSentence == Trim(SubSeq(b, 1, sentenceEndIndex))
  IN  IF match = 0
        THEN [buffer |-> b, pushed |-> <<>>]
        ELSE [buffer |-> SubSeq(b, sentenceEndIndex + 1, Len(b)),
              pushed |-> IF completeSentence # <<>> THEN <<completeSentence>> ELSE <<>>]

\* FlushResidual discarding what is left in the buffer
FlushResidualDiscards(buf) == [buffer |-> <<>>, pushed |-> <<>>]

\* "Handle any remaining buffer" after the stream has returned
FlushResidual(buf) ==
  IF Trim(buf) # <<>>
    THEN [buffer |-> <<>>, pushed |-> <<Trim(buf)>>]
    ELSE [buffer |-> buf, pushed |-> <<>>]

\* ------------------------------------------------- the connection's state
\* the token streams the text-generation service may deliver: a response of
\* three sentences that opens with an empty delta, and one of one sentence
LongScript == << <<>>, <<"a", ".">>, <<" ", "b", ".">>, <<" ", "c">> >>
ShortScript == << <<"d">>, <<".">> >>
Scripts == {LongScript, ShortScript}

VARIABLES
  messages,               \* conversation history: turns [role, req, content]
  currentSentenceBuffer,  \* the segmenter's buffer, one per connection
  isGenerating,           \* processingState.isGenerating
  shouldCancel,           \* processingState.shouldCancel
  socketOpen,             \* socket.readyState === 1
  sent,                   \* what socket.send was called with, in order, per request
  nextReq,                \* the next processTranscript invocation
  pc,                     \* where each processTranscript invocation stands
  response,               \* the token stream of each request
  tokIdx,                 \* fragments of the stream consumed so far
  assistantResponse,      \* streamChatCompletion's accumulated text
  msgSnap,                \* the messages argument streamChatCompletion got
  streamResult,           \* how streamChatCompletion ended
  sentenceQueue,          \* each request's pending sentences
  enqueued,               \* every sentence a request pushed, in push order
  isOpenAIComplete,       \* each request's completion flag
  dpc,                    \* where each processSentenceQueue loop stands
  cur,                    \* the sentence being synthesized: [sentence, len, pos]
  ttsFailed,              \* the sentences whose synthesis threw
  stopped,                \* requests that were running when stop_generation came
  superseded,             \* requests that were running when a newer transcript came
  segS, segPos, segDone,  \* the segmenter run alone: input, position, flushed
  clockMs,                \* the server's Date.now()
  sessionIds,             \* conversationState.sessionId of each connection accepted
  sheetColumnA,           \* column A of the sheet's data rows (row 2 onwards)
  sheetRowNumber,         \* conversationState.sheetRowNumber of each connection (0: null)
  sessionIdUpdated,       \* conversationState.sessionIdUpdated of each connection
  fieldUpdates,           \* the calls of updateFieldInGoogleSheets, in the order issued
  sheetCells,             \* the cells of columns B.. written, and for which connection
  isCallActive,           \* isCallActiveRef.current
  wsState,                \* the client's WebSocket: "none", "open", "closed"
  wsOut,                  \* what the client called ws.send with, in order
  closeTimer,             \* stopCall's 500 ms force-close timer is pending
  status,                 \* the status shown: idle, listening, speaking
  recognitionRef,         \* recognitionRef.current is not null
  recState,               \* the recognition object: stopped, started, ending
  endTimer,               \* onend's 100 ms restart timer is pending
  retryTimer,             \* restartRecognition's 200 ms retry timer is pending
  interimTranscript,      \* interimTranscriptRef.current
  silent,                 \* Date.now() - lastSpeechTimeRef.current > silenceThreshold
  results,                \* result events delivered so far
  isSpeaking,             \* isSpeakingRef.current
  ttsQueue,               \* ttsQueueRef.current.length
  utterance,              \* speechSynthesis is speaking an utterance
  ttsTimer,               \* processTTSQueue's 800 ms timer is pending
  isPlaying,              \* isPlayingRef.current
  audioQueue,             \* audioQueueRef.current: [bytes, arrived] of each chunk
  pcmBuffer,              \* pcmBufferRef.current.length
  received,               \* binary messages received so far
  bufferTimeout,          \* audioContextRef.current.bufferTimeout is set
  currentTime,            \* audioContext.currentTime, in ms
  nextStartTime,          \* audioContextRef.current.nextStartTime, in ms (0: not set)
  scheduled,              \* every source.start call: [start, duration, at, arrived]
  activeSources,          \* activeSourcesRef.current: indices into scheduled
  plays,                  \* playAudioQueue calls at an await: [stage, lastEndTime]
  replayTimer,            \* finally's setTimeout(playAudioQueue, 0) is pending
  serverGenerating        \* the server's isGenerating for this client's connection

vars == <<messages, currentSentenceBuffer, isGenerating, shouldCancel,
          socketOpen, sent, nextReq, pc, response, tokIdx, assistantResponse,
          msgSnap, streamResult, sentenceQueue, enqueued, isOpenAIComplete,
          dpc, cur, ttsFailed, stopped, superseded, segS, segPos, segDone,
          clockMs, sessionIds, sheetColumnA, sheetRowNumber,
          sessionIdUpdated, fieldUpdates, sheetCells,
          isCallActive, wsState, wsOut, closeTimer, status, recognitionRef,
          recState, endTimer, retryTimer, interimTranscript, silent, results,
          isSpeaking, ttsQueue, utterance, ttsTimer, isPlaying, audioQueue,
          pcmBuffer, received, bufferTimeout, currentTime, nextStartTime,
          scheduled, activeSources, plays, replayTimer, serverGenerating>>

connVars == <<messages, isGenerating, shouldCancel, socketOpen, sent, nextReq,
              pc, response, tokIdx, assistantResponse, msgSnap, streamResult,
              isOpenAIComplete, dpc, cur, ttsFailed, stopped, superseded>>

segVars == <<segS, segPos, segDone>>

\* the browser client
clientVars == <<isCallActive, wsState, wsOut, closeTimer, status,
                recognitionRef, recState, endTimer, retryTimer,
                interimTranscript, silent, results, isSpeaking, ttsQueue,
                utterance, ttsTimer, isPlaying, audioQueue, pcmBuffer,
                received, bufferTimeout, currentTime, nextStartTime, scheduled,
                activeSources, plays, replayTimer, serverGenerating>>

\* everything one connection's requests work on
requestVars == <<connVars, currentSentenceBuffer, sentenceQueue, enqueued>>

sessVars == <<clockMs, sessionIds, sheetColumnA, sheetRowNumber,
              sessionIdUpdated, fieldUpdates, sheetCells>>

\* the server side
serverVars == <<requestVars, segVars, sessVars>>

NoSentence == [sentence |-> <<>>, len |-> 0, pos |-> 0]

\* processTranscript has been called and has not reached the end of finally
Running(r) == pc[r] \in {"grace", "stream", "drain"}

ConnInit ==
  /\ messages = <<>>
  /\ currentSentenceBuffer = <<>>
  /\ isGenerating = FALSE
  /\ shouldCancel = FALSE
  /\ socketOpen = TRUE
  /\ sent = [r \in Req |-> <<>>]
  /\ nextReq = 1
  /\ pc = [r \in Req |-> "idle"]
  /\ response = [r \in Req |-> <<>>]
  /\ tokIdx = [r \in Req |-> 0]
  /\ assistantResponse = [r \in Req |-> <<>>]
  /\ msgSnap = [r \in Req |-> <<>>]
  /\ streamResult = [r \in Req |-> "none"]
  /\ sentenceQueue = [r \in Req |-> <<>>]
  /\ enqueued = [r \in Req |-> <<>>]
  /\ isOpenAIComplete = [r \in Req |-> FALSE]
  /\ dpc = [r \in Req |-> "none"]
  /\ cur = [r \in Req |-> NoSentence]
  /\ ttsFailed = [r \in Req |-> {}]
  /\ stopped = {}
  /\ superseded = {}

\* the server has accepted no connection yet
SessInit ==
  /\ clockMs = 0
  /\ sessionIds = <<>>
  /\ sheetColumnA = <<>>
  /\ sheetRowNumber = <<>>
  /\ sessionIdUpdated = <<>>
  /\ fieldUpdates = <<>>
  /\ sheetCells = {}

\* the App component after its first render: no call yet
ClientInit ==
  /\ isCallActive = FALSE
  /\ wsState = "none"
  /\ wsOut = <<>>
  /\ closeTimer = FALSE
  /\ status = "idle"
  /\ recognitionRef = FALSE
  /\ recState = "stopped"
  /\ endTimer = FALSE
  /\ retryTimer = FALSE
  /\ interimTranscript = <<>>
  /\ silent = TRUE
  /\ results = 0
  /\ isSpeaking = FALSE
  /\ ttsQueue = 0
  /\ utterance = FALSE
  /\ ttsTimer = FALSE
  /\ isPlaying = FALSE
  /\ audioQueue = <<>>
  /\ pcmBuffer = 0
  /\ received = 0
  /\ bufferTimeout = FALSE
  /\ currentTime = 0
  /\ nextStartTime = 0
  /\ scheduled = <<>>
  /\ activeSources = {}
  /\ plays = <<>>
  /\ replayTimer = FALSE
  /\ serverGenerating = FALSE

Init ==
  /\ ConnInit /\ SessInit /\ ClientInit
  /\ segS = <<>> /\ segPos = 0 /\ segDone = FALSE

AudioChunk(r, t, k) == [type |-> "audio", req |-> r, sentence |-> t, chunk |-> k]
ErrorMessage(r) == [type |-> "error", req |-> r, sentence |-> <<>>, chunk |-> 0]

\* ------------------------------------------------------- processTranscript
\* "Reset state for new request" up to the first await of streamChatCompletion;
\* the consumer loop is started and finds its queue empty
StartGeneration(r) ==
  /\ isGenerating' = TRUE
  /\ shouldCancel' = FALSE
  /\ msgSnap' = [msgSnap EXCEPT ![r] = messages]
  /\ pc' = [pc EXCEPT ![r] = "stream"]
  /\ dpc' = [dpc EXCEPT ![r] = "poll"]

\* socket.on('message') with {type: 'transcript'}: processTranscript is called
RecvTranscript(r, s) ==
  /\ socketOpen
  /\ r = nextReq
  /\ nextReq' = r + 1
  /\ response' = [response EXCEPT ![r] = s]
  /\ superseded' = superseded \cup {q \in Req : Running(q)}
  /\ IF isGenerating
       THEN /\ shouldCancel' = TRUE
            /\ pc' = [pc EXCEPT ![r] = "grace"]
            /\ UNCHANGED <<isGenerating, msgSnap, dpc>>
       ELSE StartGeneration(r)
  /\ UNCHANGED <<messages, currentSentenceBuffer, socketOpen, sent, tokIdx,
                 assistantResponse, streamResult, sentenceQueue, enqueued,
                 isOpenAIComplete, cur, ttsFailed, stopped, segVars, sessVars, clientVars>>

\* the 50 ms wait "for the cancellation to propagate" is over; timers of
\* equal delay fire in the order they were set
GraceElapsed(r) ==
  /\ pc[r] = "grace"
  /\ \A q \in Req : q < r => pc[q] # "grace"
  /\ StartGeneration(r)
  /\ UNCHANGED <<messages, currentSentenceBuffer, socketOpen, sent, nextReq,
                 response, tokIdx, assistantResponse, streamResult,
                 sentenceQueue, enqueued, isOpenAIComplete, cur, ttsFailed,
                 stopped, superseded, segVars, sessVars, clientVars>>

\* socket.on('message') with {type: 'stop_generation'}
RecvStop ==
  /\ socketOpen
  /\ shouldCancel' = TRUE
  /\ stopped' = stopped \cup {q \in Req : Running(q)}
  /\ UNCHANGED <<messages, currentSentenceBuffer, isGenerating, socketOpen,
                 sent, nextReq, pc, response, tokIdx, assistantResponse,
                 msgSnap, streamResult, sentenceQueue, enqueued,
                 isOpenAIComplete, dpc, cur, ttsFailed, superseded, segVars, sessVars, clientVars>>

\* the client goes away
SocketClose ==
  /\ socketOpen
  /\ socketOpen' = FALSE
  /\ UNCHANGED <<messages, currentSentenceBuffer, isGenerating, shouldCancel,
                 sent, nextReq, pc, response, tokIdx, assistantResponse,
                 msgSnap, streamResult, sentenceQueue, enqueued,
                 isOpenAIComplete, dpc, cur, ttsFailed, stopped, superseded,
                 segVars, sessVars, clientVars>>

\* ------------------------------------------------ processSentenceQueue
\* LoopStep taking the newest sentence instead of the oldest (pop for shift)
LoopStepPop(q, complete, cancel) ==
  IF q = <<>>
    THEN [dpc |-> IF complete THEN "exit" ELSE "poll", queue |-> q,
          sentence |-> <<>>]
    ELSE [dpc |-> IF cancel THEN "exit" ELSE "tts",
          queue |-> SubSeq(q, 1, Len(q) - 1), sentence |-> q[Len(q)]]

\* LoopStep without the "if (isOpenAIComplete) break"
LoopStepSpins(q, complete, cancel) ==
  IF q = <<>>
    THEN [dpc |-> "poll", queue |-> q, sentence |-> <<>>]
    ELSE [dpc |-> IF cancel THEN "exit" ELSE "tts", queue |-> Tail(q),
          sentence |-> Head(q)]

\* one pass of the while (true) loop up to its next await
LoopStep(q, complete, cancel) ==
  IF q = <<>>
    THEN [dpc |-> IF complete THEN "exit" ELSE "poll", queue |-> q,
          sentence |-> <<>>]
    ELSE [dpc |-> IF cancel THEN "exit" ELSE "tts", queue |-> Tail(q),
          sentence |-> Head(q)]

\* the loop runs on from the top; when it exits while processTranscript
\* awaits sentenceProcessingPromise, the finally block runs
DispatcherContinue(r) ==
  LET step == LoopStep(sentenceQueue[r], isOpenAIComplete[r], shouldCancel)
  IN  /\ dpc' = [dpc EXCEPT ![r] = step.dpc]
      /\ sentenceQueue' = [sentenceQueue EXCEPT ![r] = step.queue]
      /\ cur' = [cur EXCEPT ![r] =
                   IF step.dpc = "tts"
                     THEN [sentence |-> step.sentence, len |-> 0, pos |-> 0]
                     ELSE NoSentence]
      /\ IF step.dpc = "exit" /\ pc[r] = "drain"
           THEN /\ pc' = [pc EXCEPT ![r] = "done"]
                /\ isGenerating' = FALSE
           ELSE UNCHANGED <<pc, isGenerating>>

\* the onAudioChunk callback given to streamSarvamTTS
OnAudioChunk(r, t, k) ==
  IF shouldCancel THEN sent
  ELSE IF socketOpen THEN [sent EXCEPT ![r] = Append(@, AudioChunk(r, t, k))]
  ELSE sent

\* the 50 ms wait on an empty queue is over
PollTimer(r) ==
  /\ dpc[r] = "poll"
  /\ DispatcherContinue(r)
  /\ UNCHANGED <<messages, currentSentenceBuffer, shouldCancel, socketOpen,
                 sent, nextReq, response, tokIdx, assistantResponse, msgSnap,
                 streamResult, enqueued, isOpenAIComplete, ttsFailed, stopped,
                 superseded, segVars, sessVars, clientVars>>

\* axios.post returns audio of n chunks; the first chunk goes out at once
TTSResponse(r, n) ==
  /\ dpc[r] = "tts"
  /\ sent' = OnAudioChunk(r, cur[r].sentence, 1)
  /\ IF n = 1
       THEN DispatcherContinue(r)
       ELSE /\ dpc' = [dpc EXCEPT ![r] = "chunks"]
            /\ cur' = [cur EXCEPT ![r] = [sentence |-> cur[r].sentence, len |-> n, pos |-> 1]]
            /\ UNCHANGED <<sentenceQueue, pc, isGenerating>>
  /\ UNCHANGED <<messages, currentSentenceBuffer, shouldCancel, socketOpen,
                 nextReq, response, tokIdx, assistantResponse, msgSnap,
                 streamResult, enqueued, isOpenAIComplete, ttsFailed, stopped,
                 superseded, segVars, sessVars, clientVars>>

\* the 10 ms delay between two chunks is over
ChunkTimer(r) ==
  /\ dpc[r] = "chunks"
  /\ sent' = OnAudioChunk(r, cur[r].sentence, cur[r].pos + 1)
  /\ IF cur[r].pos + 1 = cur[r].len
       THEN DispatcherContinue(r)
       ELSE /\ cur' = [cur EXCEPT ![r].pos = @ + 1]
            /\ UNCHANGED <<dpc, sentenceQueue, pc, isGenerating>>
  /\ UNCHANGED <<messages, currentSentenceBuffer, shouldCancel, socketOpen,
                 nextReq, response, tokIdx, assistantResponse, msgSnap,
                 streamResult, enqueued, isOpenAIComplete, ttsFailed, stopped,
                 superseded, segVars, sessVars, clientVars>>

\* TTSFail without the try/catch around streamSarvamTTS: the loop ends
TTSFailEndsLoop(r) ==
  /\ dpc[r] = "tts"
  /\ ttsFailed' = [ttsFailed EXCEPT ![r] = @ \cup {cur[r].sentence}]
  /\ dpc' = [dpc EXCEPT ![r] = "exit"]
  /\ cur' = [cur EXCEPT ![r] = NoSentence]
  /\ IF pc[r] = "drain"
       THEN /\ pc' = [pc EXCEPT ![r] = "done"]
            /\ isGenerating' = FALSE
       ELSE UNCHANGED <<pc, isGenerating>>
  /\ UNCHANGED <<messages, currentSentenceBuffer, shouldCancel, socketOpen,
                 sent, nextReq, response, tokIdx, assistantResponse, msgSnap,
                 streamResult, sentenceQueue, enqueued, isOpenAIComplete,
                 stopped, superseded, segVars, sessVars, clientVars>>

\* streamSarvamTTS throws; the loop's catch logs it
TTSFail(r) ==
  /\ dpc[r] = "tts"
  /\ ttsFailed' = [ttsFailed EXCEPT ![r] = @ \cup {cur[r].sentence}]
  /\ DispatcherContinue(r)
  /\ UNCHANGED <<messages, currentSentenceBuffer, shouldCancel, socketOpen,
                 sent, nextReq, response, tokIdx, assistantResponse, msgSnap,
                 streamResult, enqueued, isOpenAIComplete, stopped, superseded,
                 segVars, sessVars, clientVars>>

\* ------------------------------------------------ streamChatCompletion
UserTurn(r) == [role |-> "user", req |-> r, content |-> <<"u">>]
AssistantTurn(r, text) == [role |-> "assistant", req |-> r, content |-> text]

\* "Return updated messages array with both user and assistant messages"
UpdatedMessages(r) ==
  msgSnap[r] \o <<UserTurn(r), AssistantTurn(r, assistantResponse[r])>>

\* streamChatCompletion returns newMessages: processTranscript assigns it,
\* flushes the buffer, marks the stream complete and awaits the consumer
StreamReturns(r, result, newMessages) ==
  LET flush == FlushResidual(currentSentenceBuffer)
  IN  /\ streamResult' = [streamResult EXCEPT ![r] = result]
      /\ messages' = newMessages
      /\ currentSentenceBuffer' = flush.buffer
      /\ sentenceQueue' = [sentenceQueue EXCEPT ![r] = @ \o flush.pushed]
      /\ enqueued' = [enqueued EXCEPT ![r] = @ \o flush.pushed]
      /\ isOpenAIComplete' = [isOpenAIComplete EXCEPT ![r] = TRUE]
      /\ IF dpc[r] = "exit"
           THEN /\ pc' = [pc EXCEPT ![r] = "done"]
                /\ isGenerating' = FALSE
           ELSE /\ pc' = [pc EXCEPT ![r] = "drain"]
                /\ UNCHANGED isGenerating
      /\ UNCHANGED <<shouldCancel, socketOpen, sent, nextReq, response, tokIdx,
                     assistantResponse, msgSnap, dpc, cur, ttsFailed, stopped,
                     superseded, segVars, sessVars, clientVars>>

\* StreamRaises with the error swallowed: the call returns as if completed
StreamRaisesSwallowed(r) == StreamReturns(r, "completed", UpdatedMessages(r))

\* streamChatCompletion throws: processTranscript's catch and finally
StreamRaises(r) ==
  /\ streamResult' = [streamResult EXCEPT ![r] = "raised"]
  /\ sent' = IF socketOpen THEN [sent EXCEPT ![r] = Append(@, ErrorMessage(r))] ELSE sent
  /\ isGenerating' = FALSE
  /\ pc' = [pc EXCEPT ![r] = "done"]
  /\ UNCHANGED <<messages, currentSentenceBuffer, shouldCancel, socketOpen,
                 nextReq, response, tokIdx, assistantResponse, msgSnap,
                 sentenceQueue, enqueued, isOpenAIComplete, dpc, cur,
                 ttsFailed, stopped, superseded, segVars, sessVars, clientVars>>

\* StreamChunk without the poll of checkCancellation
StreamChunkUnchecked(r) ==
  /\ pc[r] = "stream"
  /\ tokIdx[r] < Len(response[r])
  /\ LET content == response[r][tokIdx[r] + 1]
         seg == OnToken(currentSentenceBuffer, content)
     IN  /\ tokIdx' = [tokIdx EXCEPT ![r] = @ + 1]
         /\ IF content # <<>>
              THEN /\ assistantResponse' =
                        [assistantResponse EXCEPT ![r] = @ \o content]
                   /\ currentSentenceBuffer' = seg.buffer
                   /\ sentenceQueue' =
                        [sentenceQueue EXCEPT ![r] = @ \o seg.pushed]
                   /\ enqueued' = [enqueued EXCEPT ![r] = @ \o seg.pushed]
              ELSE UNCHANGED <<assistantResponse, currentSentenceBuffer,
                               sentenceQueue, enqueued>>
         /\ UNCHANGED <<messages, isGenerating, shouldCancel, socketOpen,
                        sent, nextReq, pc, response, msgSnap,
                        streamResult, isOpenAIComplete, dpc, cur,
                        ttsFailed, stopped, superseded, segVars, sessVars, clientVars>>

\* for await (const chunk of stream): the next fragment arrives
StreamChunk(r) ==
  /\ pc[r] = "stream"
  /\ tokIdx[r] < Len(response[r])
  /\ IF shouldCancel
       THEN StreamReturns(r, "cancelled", UpdatedMessages(r))
       ELSE LET content == response[r][tokIdx[r] + 1]
                seg == OnToken(currentSentenceBuffer, content)
            IN  /\ tokIdx' = [tokIdx EXCEPT ![r] = @ + 1]
                /\ IF content # <<>>
                     THEN /\ assistantResponse' =
                               [assistantResponse EXCEPT ![r] = @ \o content]
                          /\ currentSentenceBuffer' = seg.buffer
                          /\ sentenceQueue' =
                               [sentenceQueue EXCEPT ![r] = @ \o seg.pushed]
                          /\ enqueued' = [enqueued EXCEPT ![r] = @ \o seg.pushed]
                     ELSE UNCHANGED <<assistantResponse, currentSentenceBuffer,
                                      sentenceQueue, enqueued>>
                /\ UNCHANGED <<messages, isGenerating, shouldCancel, socketOpen,
                               sent, nextReq, pc, response, msgSnap,
                               streamResult, isOpenAIComplete, dpc, cur,
                               ttsFailed, stopped, superseded, segVars, sessVars, clientVars>>

\* the stream ends after its last fragment
StreamEnd(r) ==
  /\ pc[r] = "stream"
  /\ tokIdx[r] = Len(response[r])
  /\ StreamReturns(r, "completed", UpdatedMessages(r))

\* client.chat.completions.create or the stream throws: the catch block
\* (an error named AbortError comes only from stream.controller.abort(),
\* which the loop calls right before its break, so a failure is not one)
StreamFail(r) ==
  /\ pc[r] = "stream"
  /\ IF shouldCancel
       THEN StreamReturns(r, "aborted", msgSnap[r])
       ELSE StreamRaises(r)

\* a connection that carries one transcript, with every fault
Next ==
  \/ \E s \in Scripts : RecvTranscript(1, s)
  \/ RecvStop
  \/ SocketClose
  \/ StreamChunk(1)
  \/ StreamEnd(1)
  \/ StreamFail(1)
  \/ PollTimer(1)
  \/ \E n \in 1..MaxChunks : TTSResponse(1, n)
  \/ ChunkTimer(1)
  \/ TTSFail(1)

Spec == Init /\ [][Next]_vars

\* every collaborator call eventually returns or throws, every timer fires
FairSpec ==
  /\ Spec
  /\ WF_vars(StreamChunk(1) \/ StreamEnd(1) \/ StreamFail(1))
  /\ WF_vars(PollTimer(1))
  /\ WF_vars((\E n \in 1..MaxChunks : TTSResponse(1, n)) \/ TTSFail(1))
  /\ WF_vars(ChunkTimer(1))



\* a connection that carries up to MaxReq transcripts, which may overlap;
\* the collaborators do not fail, every sentence is synthesized into one
\* chunk and the client stays connected
OverlapNext ==
  \/ \E r \in Req : RecvTranscript(r, ShortScript)
  \/ \E r \in Req : GraceElapsed(r)
  \/ RecvStop
  \/ \E r \in Req : StreamChunk(r)
  \/ \E r \in Req : StreamEnd(r)
  \/ \E r \in Req : PollTimer(r)
  \/ \E r \in Req : TTSResponse(r, 1)

OverlapSpec == Init /\ [][OverlapNext]_vars

\* ------------------------------------------- the segmenter run on its own
SegAlphabet == {"a", ".", "?", " "}

HelloThere ==
  <<"H", "e", "l", "l", "o", " ", "t", "h", "e", "r", "e", ".", " ",
    "H", "o", "w", " ", "a", "r", "e", " ", "y", "o", "u", "?">>

SegInputs ==
  UNION {[1..k -> SegAlphabet] : k \in 0..MaxLen} \cup {HelloThere}

SegInit ==
  /\ ConnInit /\ SessInit /\ ClientInit
  /\ segS \in SegInputs /\ segPos = 0 /\ segDone = FALSE

\* the next n characters of segS arrive as one fragment
SegFeed(n) ==
  /\ ~segDone
  /\ segPos + n <= Len(segS)
  /\ LET seg == OnToken(currentSentenceBuffer, SubSeq(segS, segPos + 1, segPos + n))
     IN  /\ currentSentenceBuffer' = seg.buffer
         /\ sentenceQueue' = [sentenceQueue EXCEPT ![1] = @ \o seg.pushed]
         /\ enqueued' = [enqueued EXCEPT ![1] = @ \o seg.pushed]
  /\ segPos' = segPos + n
  /\ UNCHANGED <<connVars, segS, segDone, sessVars, clientVars>>

\* end of stream: the residual buffer is flushed
SegFlush ==
  /\ ~segDone
  /\ segPos = Len(segS)
  /\ LET flush == FlushResidual(currentSentenceBuffer)
     IN  /\ currentSentenceBuffer' = flush.buffer
         /\ sentenceQueue' = [sentenceQueue EXCEPT ![1] = @ \o flush.pushed]
         /\ enqueued' = [enqueued EXCEPT ![1] = @ \o flush.pushed]
  /\ segDone' = TRUE
  /\ UNCHANGED <<connVars, segS, segPos, sessVars, clientVars>>

SegNext ==
  \/ \E n \in 1..Len(HelloThere) : SegFeed(n)
  \/ SegFlush

SegSpec == SegInit /\ [][SegNext]_vars

\* ------------------------------------------------- sessions of one server
MaxClock == 5      \* readings of Date.now()
MaxSessions == 3   \* connections accepted
MaxUpdates == 2    \* calls of updateFieldInGoogleSheets

DATA_START_ROW == 2

\* the first data row whose column A holds id, as a row number; 0 if none
ExistingRow(id) ==
  LET hits == {i \in DOMAIN sheetColumnA : sheetColumnA[i] = id}
  IN  IF hits = {} THEN 0
      ELSE (CHOOSE i \in hits : \A j \in hits : i <= j) + DATA_START_ROW - 1

\* wss.on('connection'): the session id is the clock reading as a string
Connection ==
  /\ Len(sessionIds) < MaxSessions
  /\ sessionIds' = Append(sessionIds, ToString(clockMs))
  /\ sheetRowNumber' = Append(sheetRowNumber, 0)
  /\ sessionIdUpdated' = Append(sessionIdUpdated, FALSE)
  /\ UNCHANGED <<clockMs, sheetColumnA, fieldUpdates, sheetCells,
                 requestVars, segVars, clientVars>>

\* a millisecond passes
ClockTick ==
  /\ clockMs < MaxClock
  /\ clockMs' = clockMs + 1
  /\ UNCHANGED <<sessionIds, sheetColumnA, sheetRowNumber, sessionIdUpdated,
                 fieldUpdates, sheetCells, requestVars, segVars, clientVars>>

\* fields that updateFromMessage saves as soon as it extracts them
Fields == {"name", "phoneNumber", "programInterest"}

\* fieldToColumn
FieldToColumn(f) ==
  CASE f = "name" -> "B"
    [] f = "phoneNumber" -> "C"
    [] f = "programInterest" -> "D"

\* where updateFieldInGoogleSheets goes once the session id cell is settled:
\* a phone number is written to column E first, any other field to its cell
AfterSessionId(f) == IF f = "phoneNumber" THEN "phoneNo" ELSE "cell"

\* where updateFieldInGoogleSheets goes when findOrCreateSessionRow returns
AfterRow(k, f, idUpdated) == IF idUpdated[k] THEN AfterSessionId(f) ELSE "sessionId"

\* the index in sheetColumnA of a row number
RowIndex(row) == row - DATA_START_ROW + 1

\* updateFromMessage extracts field f from the transcript of connection k
\* and calls the sheets callback without awaiting it; the call runs up to
\* its first await, that of getSheetsClient in findOrCreateSessionRow
UpdateFromMessage(k, f) ==
  /\ Len(fieldUpdates) < MaxUpdates
  /\ \A u \in DOMAIN fieldUpdates :
       ~(fieldUpdates[u].k = k /\ fieldUpdates[u].field = f)
  /\ fieldUpdates' = Append(fieldUpdates,
       [k |-> k, field |-> f, pc |-> "client", rowNumber |-> 0, created |-> FALSE])
  /\ UNCHANGED <<clockMs, sessionIds, sheetColumnA, sheetRowNumber,
                 sessionIdUpdated, sheetCells, requestVars, segVars, clientVars>>

\* findOrCreateSessionRow of call u, the sheets client in hand: a known row
\* number is returned, else the sheet is requested
FindOrCreateSessionRow(u) ==
  LET k == fieldUpdates[u].k
      f == fieldUpdates[u].field
  IN  /\ fieldUpdates[u].pc = "client"
      /\ IF sheetRowNumber[k] # 0
           THEN fieldUpdates' = [fieldUpdates EXCEPT
                  ![u].rowNumber = sheetRowNumber[k],
                  ![u].pc = AfterRow(k, f, sessionIdUpdated)]
           ELSE fieldUpdates' = [fieldUpdates EXCEPT ![u].pc = "get"]
      /\ UNCHANGED <<clockMs, sessionIds, sheetColumnA, sheetRowNumber,
                     sessionIdUpdated, sheetCells, requestVars, segVars, clientVars>>

\* values.get answers call u: the rows are searched for the session id; a
\* hit is returned, else an empty row is requested
ValuesGet(u) ==
  LET k == fieldUpdates[u].k
      f == fieldUpdates[u].field
      found == ExistingRow(sessionIds[k])
  IN  /\ fieldUpdates[u].pc = "get"
      /\ IF found # 0
           THEN /\ sheetRowNumber' = [sheetRowNumber EXCEPT ![k] = found]
                /\ fieldUpdates' = [fieldUpdates EXCEPT
                     ![u].rowNumber = found,
                     ![u].pc = AfterRow(k, f, sessionIdUpdated)]
           ELSE /\ fieldUpdates' = [fieldUpdates EXCEPT ![u].pc = "append"]
                /\ UNCHANGED sheetRowNumber
      /\ UNCHANGED <<clockMs, sessionIds, sheetColumnA, sessionIdUpdated,
                     sheetCells, requestVars, segVars, clientVars>>

\* values.append answers call u: the sheet has a new empty row, whose number
\* is kept as the session's, and the session id is sent to its column A
ValuesAppend(u) ==
  LET k == fieldUpdates[u].k
      rowNumber == Len(sheetColumnA) + DATA_START_ROW
  IN  /\ fieldUpdates[u].pc = "append"
      /\ sheetColumnA' = Append(sheetColumnA, "")
      /\ sheetRowNumber' = [sheetRowNumber EXCEPT ![k] = rowNumber]
      /\ fieldUpdates' = [fieldUpdates EXCEPT
           ![u].rowNumber = rowNumber, ![u].created = TRUE, ![u].pc = "setId"]
      /\ UNCHANGED <<clockMs, sessionIds, sessionIdUpdated, sheetCells,
                     requestVars, segVars, clientVars>>

\* the session id is in column A of the new row; findOrCreateSessionRow
\* returns the row number
SetSessionId(u) ==
  LET k == fieldUpdates[u].k
      f == fieldUpdates[u].field
  IN  /\ fieldUpdates[u].pc = "setId"
      /\ sheetColumnA' = [sheetColumnA EXCEPT
           ![RowIndex(fieldUpdates[u].rowNumber)] = sessionIds[k]]
      /\ sessionIdUpdated' = [sessionIdUpdated EXCEPT ![k] = TRUE]
      /\ fieldUpdates' = [fieldUpdates EXCEPT ![u].pc = AfterSessionId(f)]
      /\ UNCHANGED <<clockMs, sessionIds, sheetRowNumber, sheetCells,
                     requestVars, segVars, clientVars>>

\* updateFieldInGoogleSheets of call u wrote the session id to column A of
\* its row, no call of the session having done so before
UpdateSessionId(u) ==
  LET k == fieldUpdates[u].k
      f == fieldUpdates[u].field
  IN  /\ fieldUpdates[u].pc = "sessionId"
      /\ sheetColumnA' = [sheetColumnA EXCEPT
           ![RowIndex(fieldUpdates[u].rowNumber)] = sessionIds[k]]
      /\ sessionIdUpdated' = [sessionIdUpdated EXCEPT ![k] = TRUE]
      /\ fieldUpdates' = [fieldUpdates EXCEPT ![u].pc = AfterSessionId(f)]
      /\ UNCHANGED <<clockMs, sessionIds, sheetRowNumber, sheetCells,
                     requestVars, segVars, clientVars>>

\* the phone number is in column E of the row of call u
UpdatePhoneNo(u) ==
  /\ fieldUpdates[u].pc = "phoneNo"
  /\ sheetCells' = sheetCells \cup
       {[row |-> fieldUpdates[u].rowNumber, column |-> "E", k |-> fieldUpdates[u].k]}
  /\ fieldUpdates' = [fieldUpdates EXCEPT ![u].pc = "cell"]
  /\ UNCHANGED <<clockMs, sessionIds, sheetColumnA, sheetRowNumber,
                 sessionIdUpdated, requestVars, segVars, clientVars>>

\* the value is in the field's column of the row of call u
UpdateFieldInGoogleSheets(u) ==
  /\ fieldUpdates[u].pc = "cell"
  /\ sheetCells' = sheetCells \cup
       {[row |-> fieldUpdates[u].rowNumber,
         column |-> FieldToColumn(fieldUpdates[u].field), k |-> fieldUpdates[u].k]}
  /\ fieldUpdates' = [fieldUpdates EXCEPT ![u].pc = "done"]
  /\ UNCHANGED <<clockMs, sessionIds, sheetColumnA, sheetRowNumber,
                 sessionIdUpdated, requestVars, segVars, clientVars>>

SessNext ==
  \/ Connection
  \/ ClockTick
  \/ \E k \in DOMAIN sessionIds, f \in Fields : UpdateFromMessage(k, f)
  \/ \E u \in DOMAIN fieldUpdates : FindOrCreateSessionRow(u)
  \/ \E u \in DOMAIN fieldUpdates : ValuesGet(u)
  \/ \E u \in DOMAIN fieldUpdates : ValuesAppend(u)
  \/ \E u \in DOMAIN fieldUpdates : SetSessionId(u)
  \/ \E u \in DOMAIN fieldUpdates : UpdateSessionId(u)
  \/ \E u \in DOMAIN fieldUpdates : UpdatePhoneNo(u)
  \/ \E u \in DOMAIN fieldUpdates : UpdateFieldInGoogleSheets(u)

SessSpec == Init /\ [][SessNext]_vars

\* ------------------------------------------------------ the browser client
MaxAudio == 4      \* messages the client receives from the server
MaxResults == 2    \* result events the recognition delivers
MaxTime == 160     \* the last reading of the audio clock, in ms
TickMs == 40       \* the clock is read every TickMs

MIN_CHUNK_SIZE == 512
MIN_CHUNKS_TO_START == 3
SafetyBufferMs == 50
WaitOverheadMs == 10

\* the isCallActive state that connectWebSocket's handlers close over:
\* startCall runs in a render where the call is not active
CapturedIsCallActive == FALSE

\* byte lengths of the binary messages
AudioSizes == {256, 1024}

\* createPCMBuffer: 16-bit samples at 16 kHz, duration in ms
Duration(bytes) == (bytes \div 2) \div 16

Max(a, b) == IF a >= b THEN a ELSE b
Last(seq) == seq[Len(seq)]
RemoveAt(seq, i) == SubSeq(seq, 1, i - 1) \o SubSeq(seq, i + 1, Len(seq))

IsTranscript(m) == m.type = "transcript"
TranscriptSent == \E i \in DOMAIN wsOut : IsTranscript(wsOut[i])

\* ws.send if the socket is open
WsSend(out, m) == IF wsState = "open" THEN Append(out, m) ELSE out

\* the while loop of playAudioQueue with startTime taken from the
\* watermark alone, without Math.max against the clock
RECURSIVE ScheduleChunksNoMax(_, _, _)
ScheduleChunksNoMax(q, nst, ct) ==
  IF q = <<>> THEN <<>>
  ELSE <<[start |-> nst, duration |-> Duration(Head(q).bytes), at |-> ct,
           arrived |-> Head(q).arrived]>>
         \o ScheduleChunksNoMax(Tail(q), nst + Duration(Head(q).bytes), ct)

\* the while loop of playAudioQueue: one source.start per queued chunk
RECURSIVE ScheduleChunks(_, _, _)
ScheduleChunks(q, nst, ct) ==
  IF q = <<>> THEN <<>>
  ELSE LET latest == Max(ct, nst)
           startTime == IF latest = ct THEN latest + SafetyBufferMs ELSE latest
           duration == Duration(Head(q).bytes)
       IN  <<[start |-> startTime, duration |-> duration, at |-> ct,
              arrived |-> Head(q).arrived]>>
             \o ScheduleChunks(Tail(q), startTime + duration, ct)

EndTime(e) == e.start + e.duration

\* playAudioQueue from "Initialize nextStartTime if not set" to the wait
Schedule(q) ==
  LET nst == IF nextStartTime = 0 THEN currentTime ELSE nextStartTime
      new == ScheduleChunks(q, nst, currentTime)
  IN  [new |-> new,
       nextStartTime |-> IF new = <<>> THEN nst ELSE EndTime(Last(new))]

\* the scheduling part of playAudioQueue acting on the state
RunSchedule(q) ==
  LET sch == Schedule(q)
  IN  /\ audioQueue' = <<>>
      /\ scheduled' = scheduled \o sch.new
      /\ activeSources' = activeSources \cup (Len(scheduled) + 1 .. Len(scheduled'))
      /\ nextStartTime' = sch.nextStartTime

\* positions in plays: every pending call took a chunk of its own
PlayIds == 1..MaxAudio

\* a playAudioQueue call that waits for the end of its last source
Playing(q) == [stage |-> "playing", lastEndTime |-> EndTime(Last(Schedule(q).new))]
MicOff == [stage |-> "micOff", lastEndTime |-> 0]

\* recognition.abort() and recognition.stop()
Abort(rs) == IF rs = "started" THEN "ending" ELSE rs

\* playAudioQueue() called with the queue holding q, up to its first await
PlayAudioQueue(q) ==
  IF isPlaying \/ q = <<>>
    THEN /\ audioQueue' = q
         /\ UNCHANGED <<isPlaying, status, recState, plays, nextStartTime,
                        scheduled, activeSources>>
    ELSE /\ isPlaying' = TRUE
         /\ status' = "speaking"
         /\ IF recognitionRef
              THEN /\ recState' = Abort(recState)
                   /\ plays' = Append(plays, MicOff)
                   /\ audioQueue' = q
                   /\ UNCHANGED <<nextStartTime, scheduled, activeSources>>
              ELSE /\ RunSchedule(q)
                   /\ plays' = Append(plays, Playing(q))
                   /\ UNCHANGED recState

\* ws.onmessage with binary data: handleAudioChunk
HandleAudioChunk(bytes) ==
  /\ wsState = "open"
  /\ TranscriptSent
  /\ received < MaxAudio
  /\ received' = received + 1
  /\ LET combined == pcmBuffer + bytes
         chunkSize == (combined \div MIN_CHUNK_SIZE) * MIN_CHUNK_SIZE
         queue == IF combined >= MIN_CHUNK_SIZE
                    THEN Append(audioQueue, [bytes |-> chunkSize,
                                             arrived |-> currentTime])
                    ELSE audioQueue
     IN  /\ pcmBuffer' = combined - chunkSize
         /\ IF ~isPlaying /\ Len(queue) >= MIN_CHUNKS_TO_START
              THEN /\ PlayAudioQueue(queue)
                   /\ UNCHANGED bufferTimeout
              ELSE /\ audioQueue' = queue
                   /\ bufferTimeout' = (bufferTimeout \/ (~isPlaying /\ Len(queue) > 0))
                   /\ UNCHANGED <<isPlaying, status, recState, plays,
                                  nextStartTime, scheduled, activeSources>>
  /\ UNCHANGED <<isCallActive, wsState, wsOut, closeTimer, recognitionRef,
                 endTimer, retryTimer, interimTranscript, silent, results,
                 isSpeaking, ttsQueue, utterance, ttsTimer, currentTime,
                 replayTimer, serverGenerating, serverVars>>

\* the 500 ms safety timeout of the jitter buffer fires
BufferTimeout ==
  /\ bufferTimeout
  /\ bufferTimeout' = FALSE
  /\ PlayAudioQueue(audioQueue)
  /\ UNCHANGED <<isCallActive, wsState, wsOut, closeTimer, recognitionRef,
                 endTimer, retryTimer, interimTranscript, silent, results,
                 isSpeaking, ttsQueue, utterance, ttsTimer, pcmBuffer,
                 received, currentTime, replayTimer, serverGenerating, serverVars>>

\* finally's setTimeout(() => playAudioQueue(), 0) fires
ReplayTimer ==
  /\ replayTimer
  /\ replayTimer' = FALSE
  /\ PlayAudioQueue(audioQueue)
  /\ UNCHANGED <<isCallActive, wsState, wsOut, closeTimer, recognitionRef,
                 endTimer, retryTimer, interimTranscript, silent, results,
                 isSpeaking, ttsQueue, utterance, ttsTimer, pcmBuffer,
                 received, bufferTimeout, currentTime, serverGenerating, serverVars>>

\* recognitionRef.current.start(): [recState, threw]
Start(rs) ==
  IF rs = "stopped" THEN [recState |-> "started", threw |-> FALSE]
                    ELSE [recState |-> rs, threw |-> TRUE]

\* restartRecognition(): start, and a retry 200 ms later if start threw
\* "already started"; a start that succeeds fires onstart
RestartRecognition ==
  IF isCallActive /\ recognitionRef
    THEN /\ recState' = Start(recState).recState
         /\ retryTimer' = (retryTimer \/ Start(recState).threw)
         /\ status' = IF Start(recState).threw THEN status ELSE "listening"
    ELSE UNCHANGED <<recState, retryTimer, status>>

\* PlayFinally leaving to the next message the chunks that arrived
\* during playback
PlayFinallyNoReplay(q) ==
  IF isPlaying
    THEN /\ isPlaying' = FALSE
         /\ UNCHANGED replayTimer
         /\ IF q = <<>> /\ CapturedIsCallActive
              THEN RestartRecognition
              ELSE /\ status' = IF q = <<>> THEN "idle" ELSE status
                   /\ UNCHANGED <<recState, retryTimer>>
    ELSE UNCHANGED <<isPlaying, replayTimer, recState, retryTimer, status>>

\* the finally block of playAudioQueue, the queue holding q
PlayFinally(q) ==
  IF isPlaying
    THEN /\ isPlaying' = FALSE
         /\ IF q # <<>> \/ pcmBuffer >= MIN_CHUNK_SIZE
              THEN /\ replayTimer' = TRUE
                   /\ UNCHANGED <<recState, retryTimer, status>>
              ELSE /\ UNCHANGED replayTimer
                   /\ IF CapturedIsCallActive
                        THEN RestartRecognition
                        ELSE /\ status' = "idle"
                             /\ UNCHANGED <<recState, retryTimer>>
    ELSE UNCHANGED <<isPlaying, replayTimer, recState, retryTimer, status>>

\* the 200 ms wait after recognition.abort() is over: the i-th pending
\* playAudioQueue call schedules what the queue holds now
PlayResumes(i) ==
  /\ i \in DOMAIN plays
  /\ plays[i].stage = "micOff"
  /\ RunSchedule(audioQueue)
  /\ IF audioQueue # <<>>
       THEN /\ plays' = [plays EXCEPT ![i] = Playing(audioQueue)]
            /\ UNCHANGED <<isPlaying, replayTimer, recState, retryTimer, status>>
       ELSE /\ plays' = RemoveAt(plays, i)
            /\ PlayFinally(<<>>)
  /\ UNCHANGED <<isCallActive, wsState, wsOut, closeTimer, recognitionRef,
                 endTimer, interimTranscript, silent, results, isSpeaking,
                 ttsQueue, utterance, ttsTimer, pcmBuffer, received,
                 bufferTimeout, currentTime, serverGenerating, serverVars>>

\* the wait for the last source's end plus 10 ms is over
PlayFinished(i) ==
  /\ i \in DOMAIN plays
  /\ plays[i].stage = "playing"
  /\ currentTime >= plays[i].lastEndTime + WaitOverheadMs
  /\ plays' = RemoveAt(plays, i)
  /\ PlayFinally(audioQueue)
  /\ UNCHANGED <<isCallActive, wsState, wsOut, closeTimer, recognitionRef,
                 endTimer, interimTranscript, silent, results, isSpeaking,
                 ttsQueue, utterance, ttsTimer, audioQueue, pcmBuffer,
                 received, bufferTimeout, currentTime, nextStartTime,
                 scheduled, activeSources, serverGenerating, serverVars>>

\* the audio clock, which startCall's AudioContext starts at 0, advances;
\* sources that have ended fire onended. Only playAudioQueue's wait for
\* the end of its last source is measured against this clock; the other
\* timers fire at any reading
Tick ==
  /\ wsState # "none"
  /\ currentTime + TickMs <= MaxTime
  /\ currentTime' = currentTime + TickMs
  /\ activeSources' = {i \in activeSources : EndTime(scheduled[i]) > currentTime'}
  /\ UNCHANGED <<isCallActive, wsState, wsOut, closeTimer, status,
                 recognitionRef, recState, endTimer, retryTimer,
                 interimTranscript, silent, results, isSpeaking, ttsQueue,
                 utterance, ttsTimer, isPlaying, audioQueue, pcmBuffer,
                 received, bufferTimeout, nextStartTime, scheduled, plays,
                 replayTimer, serverGenerating, serverVars>>

\* stopAgentSpeech(), the status being st and the call flag active
StopAgentSpeech(active, st) ==
  /\ activeSources' = {}
  /\ audioQueue' = <<>>
  /\ pcmBuffer' = 0
  /\ ttsQueue' = 0
  /\ isPlaying' = FALSE
  /\ isSpeaking' = FALSE
  /\ status' = IF active THEN "listening" ELSE st

\* --------------------------------------------------- recognition and call
FinalTexts == {<<>>, <<"o", "k">>}
InterimTexts == {<<>>, <<"h", "i">>, <<"h", "e", "y">>}

Transcript(text) == [type |-> "transcript", text |-> text]
StopGeneration == [type |-> "stop_generation", text |-> <<>>]
CloseMessage == [type |-> "close", text |-> <<>>]

\* startCall: the socket connects, the recognition is created and started
StartCall ==
  /\ wsState = "none"
  /\ wsState' = "open"
  /\ recognitionRef' = TRUE
  /\ recState' = "started"
  /\ status' = "listening"
  /\ isCallActive' = TRUE
  /\ UNCHANGED <<wsOut, closeTimer, endTimer, retryTimer, interimTranscript,
                 silent, results, isSpeaking, ttsQueue, utterance, ttsTimer,
                 isPlaying, audioQueue, pcmBuffer, received, bufferTimeout,
                 currentTime, nextStartTime, scheduled, activeSources, plays,
                 replayTimer, serverGenerating, serverVars>>

\* the barge-in test of recognition.onresult
BargeIn(finalTranscript, interim) ==
  isSpeaking /\ (finalTranscript # <<>> \/ Len(interim) > 2)

\* recognition.onresult with one final and one interim alternative
OnResult(final, interim) ==
  /\ recState = "started"
  /\ results < MaxResults
  /\ final # <<>> \/ interim # <<>>
  /\ results' = results + 1
  /\ LET finalTranscript == IF final = <<>> THEN <<>> ELSE final \o <<" ">>
         hasInterim == Trim(interim) # <<>>
         hasFinal == Trim(finalTranscript) # <<>>
         bargeIn == BargeIn(finalTranscript, interim)
         out1 == IF bargeIn THEN WsSend(wsOut, StopGeneration) ELSE wsOut
     IN  /\ silent' = IF hasInterim \/ hasFinal THEN FALSE ELSE silent
         /\ interimTranscript' =
              IF bargeIn \/ hasFinal THEN <<>>
              ELSE IF hasInterim THEN interim ELSE interimTranscript
         /\ IF bargeIn
              THEN StopAgentSpeech(isCallActive, status)
              ELSE UNCHANGED <<activeSources, audioQueue, pcmBuffer, ttsQueue,
                               isPlaying, isSpeaking, status>>
         /\ wsOut' = IF hasFinal THEN WsSend(out1, Transcript(Trim(finalTranscript)))
                                 ELSE out1
  /\ serverGenerating' =
       (serverGenerating \/ (wsOut' # wsOut /\ IsTranscript(Last(wsOut'))))
  /\ UNCHANGED <<isCallActive, wsState, closeTimer, recognitionRef, recState,
                 endTimer, retryTimer, utterance, ttsTimer, received,
                 bufferTimeout, currentTime, nextStartTime, scheduled, plays,
                 replayTimer, serverVars>>

\* more than silenceThreshold ms pass without a result
SilencePasses ==
  /\ ~silent
  /\ silent' = TRUE
  /\ UNCHANGED <<isCallActive, wsState, wsOut, closeTimer, status,
                 recognitionRef, recState, endTimer, retryTimer,
                 interimTranscript, results, isSpeaking, ttsQueue, utterance,
                 ttsTimer, isPlaying, audioQueue, pcmBuffer, received,
                 bufferTimeout, currentTime, nextStartTime, scheduled,
                 activeSources, plays, replayTimer, serverGenerating, serverVars>>

\* TurboVAD without the test of timeSinceLastSpeech
TurboVADNoSilence ==
  /\ isCallActive /\ recognitionRef /\ ~isSpeaking /\ ~isPlaying
  /\ Trim(interimTranscript) # <<>>
  /\ wsState = "open"
  /\ wsOut' = Append(wsOut, Transcript(Trim(interimTranscript)))
  /\ interimTranscript' = <<>>
  /\ recState' = Abort(recState)
  /\ serverGenerating' = TRUE
  /\ UNCHANGED <<isCallActive, wsState, closeTimer, status, recognitionRef,
                 endTimer, retryTimer, silent, results, isSpeaking, ttsQueue,
                 utterance, ttsTimer, isPlaying, audioQueue, pcmBuffer,
                 received, bufferTimeout, currentTime, nextStartTime,
                 scheduled, activeSources, plays, replayTimer, serverVars>>

\* the Turbo VAD interval finds pending interim text and enough silence
TurboVAD ==
  /\ isCallActive /\ recognitionRef /\ ~isSpeaking /\ ~isPlaying
  /\ Trim(interimTranscript) # <<>>
  /\ silent
  /\ wsState = "open"
  /\ wsOut' = Append(wsOut, Transcript(Trim(interimTranscript)))
  /\ interimTranscript' = <<>>
  /\ recState' = Abort(recState)
  /\ serverGenerating' = TRUE
  /\ UNCHANGED <<isCallActive, wsState, closeTimer, status, recognitionRef,
                 endTimer, retryTimer, silent, results, isSpeaking, ttsQueue,
                 utterance, ttsTimer, isPlaying, audioQueue, pcmBuffer,
                 received, bufferTimeout, currentTime, nextStartTime,
                 scheduled, activeSources, plays, replayTimer, serverVars>>

\* the recognition ends, after abort() or stop() or by itself: onend
RecognitionEnds ==
  /\ recState \in {"started", "ending"}
  /\ recState' = "stopped"
  /\ endTimer' = (endTimer \/ (isCallActive /\ ~isSpeaking /\ ~isPlaying))
  /\ UNCHANGED <<isCallActive, wsState, wsOut, closeTimer, status,
                 recognitionRef, retryTimer, interimTranscript, silent,
                 results, isSpeaking, ttsQueue, utterance, ttsTimer, isPlaying,
                 audioQueue, pcmBuffer, received, bufferTimeout, currentTime,
                 nextStartTime, scheduled, activeSources, plays, replayTimer,
                 serverGenerating, serverVars>>

\* onend's 100 ms timer fires
EndTimer ==
  /\ endTimer
  /\ endTimer' = FALSE
  /\ IF ~isSpeaking /\ ~isPlaying
       THEN RestartRecognition
       ELSE UNCHANGED <<recState, retryTimer, status>>
  /\ UNCHANGED <<isCallActive, wsState, wsOut, closeTimer, recognitionRef,
                 interimTranscript, silent, results, isSpeaking, ttsQueue,
                 utterance, ttsTimer, isPlaying, audioQueue, pcmBuffer,
                 received, bufferTimeout, currentTime, nextStartTime,
                 scheduled, activeSources, plays, replayTimer, serverGenerating, serverVars>>

\* restartRecognition's 200 ms retry fires
RetryTimer ==
  /\ retryTimer
  /\ retryTimer' = FALSE
  /\ IF isCallActive /\ recognitionRef
       THEN /\ recState' = Start(recState).recState
            /\ status' = IF Start(recState).threw THEN status ELSE "listening"
       ELSE UNCHANGED <<recState, status>>
  /\ UNCHANGED <<isCallActive, wsState, wsOut, closeTimer, recognitionRef,
                 endTimer, interimTranscript, silent, results, isSpeaking,
                 ttsQueue, utterance, ttsTimer, isPlaying, audioQueue,
                 pcmBuffer, received, bufferTimeout, currentTime,
                 nextStartTime, scheduled, activeSources, plays, replayTimer,
                 serverGenerating, serverVars>>

\* the 1 s recognitionCheckInterval finds the recognition not running
RecognitionCheck ==
  /\ isCallActive /\ recognitionRef /\ ~isSpeaking /\ ~isPlaying
  /\ recState = "stopped"
  /\ recState' = "started"
  /\ status' = "listening"
  /\ UNCHANGED <<isCallActive, wsState, wsOut, closeTimer, recognitionRef,
                 endTimer, retryTimer, interimTranscript, silent, results,
                 isSpeaking, ttsQueue, utterance, ttsTimer, isPlaying,
                 audioQueue, pcmBuffer, received, bufferTimeout, currentTime,
                 nextStartTime, scheduled, activeSources, plays, replayTimer,
                 serverGenerating, serverVars>>

\* processTTSQueue(), the queue holding n texts
ProcessTTSQueue(n) ==
  IF n = 0
    THEN /\ isSpeaking' = FALSE
         /\ status' = IF CapturedIsCallActive THEN "listening" ELSE "idle"
         /\ ttsTimer' = TRUE
         /\ ttsQueue' = 0
         /\ utterance' = FALSE
    ELSE /\ isSpeaking' = TRUE
         /\ status' = "speaking"
         /\ ttsQueue' = n - 1
         /\ utterance' = TRUE
         /\ UNCHANGED ttsTimer

\* ws.onmessage with {type: 'tts_text'}: speakText
SpeakText ==
  /\ wsState = "open"
  /\ TranscriptSent
  /\ received < MaxAudio
  /\ received' = received + 1
  /\ IF isSpeaking
       THEN /\ ttsQueue' = ttsQueue + 1
            /\ UNCHANGED <<isSpeaking, status, ttsTimer, utterance>>
       ELSE ProcessTTSQueue(ttsQueue + 1)
  /\ UNCHANGED <<isCallActive, wsState, wsOut, closeTimer, recognitionRef,
                 recState, endTimer, retryTimer, interimTranscript, silent,
                 results, isPlaying, audioQueue, pcmBuffer, bufferTimeout,
                 currentTime, nextStartTime, scheduled, activeSources, plays,
                 replayTimer, serverGenerating, serverVars>>

\* utterance.onend, or utterance.onerror after speechSynthesis.cancel()
UtteranceEnds ==
  /\ utterance
  /\ ProcessTTSQueue(ttsQueue)
  /\ UNCHANGED <<isCallActive, wsState, wsOut, closeTimer, recognitionRef,
                 recState, endTimer, retryTimer, interimTranscript, silent,
                 results, isPlaying, audioQueue, pcmBuffer, received,
                 bufferTimeout, currentTime, nextStartTime, scheduled,
                 activeSources, plays, replayTimer, serverGenerating, serverVars>>

\* processTTSQueue's 800 ms timer fires: restartRecognition()
TtsTimer ==
  /\ ttsTimer
  /\ ttsTimer' = FALSE
  /\ RestartRecognition
  /\ UNCHANGED <<isCallActive, wsState, wsOut, closeTimer, recognitionRef,
                 endTimer, interimTranscript, silent, results, isSpeaking,
                 ttsQueue, utterance, isPlaying, audioQueue, pcmBuffer,
                 received, bufferTimeout, currentTime, nextStartTime,
                 scheduled, activeSources, plays, replayTimer, serverGenerating, serverVars>>

\* stopCall: the End Call button
StopCall ==
  /\ isCallActive
  /\ isCallActive' = FALSE
  /\ StopAgentSpeech(FALSE, "idle")
  /\ recState' = Abort(recState)
  /\ recognitionRef' = FALSE
  /\ wsOut' = WsSend(wsOut, CloseMessage)
  /\ closeTimer' = (closeTimer \/ wsState = "open")
  /\ UNCHANGED <<wsState, endTimer, retryTimer, interimTranscript, silent,
                 results, utterance, ttsTimer, received, bufferTimeout,
                 currentTime, nextStartTime, scheduled, plays, replayTimer,
                 serverGenerating, serverVars>>

\* stopCall's 500 ms timer fires: the socket is closed from this side
CloseTimer ==
  /\ closeTimer
  /\ closeTimer' = FALSE
  /\ wsState' = "closed"
  /\ UNCHANGED <<isCallActive, wsOut, status, recognitionRef, recState,
                 endTimer, retryTimer, interimTranscript, silent, results,
                 isSpeaking, ttsQueue, utterance, ttsTimer, isPlaying,
                 audioQueue, pcmBuffer, received, bufferTimeout, currentTime,
                 nextStartTime, scheduled, activeSources, plays, replayTimer,
                 serverGenerating, serverVars>>

\* the server closes the socket or the connection is lost: ws.onclose,
\* whose test of isCallActive reads the captured value
WsClosed ==
  /\ wsState = "open"
  /\ wsState' = "closed"
  /\ IF CapturedIsCallActive
       THEN /\ isCallActive' = FALSE
            /\ StopAgentSpeech(FALSE, "idle")
            /\ recState' = Abort(recState)
            /\ recognitionRef' = FALSE
       ELSE UNCHANGED <<isCallActive, activeSources, audioQueue, pcmBuffer,
                        ttsQueue, isPlaying, isSpeaking, status, recState,
                        recognitionRef>>
  /\ UNCHANGED <<wsOut, closeTimer, endTimer, retryTimer, interimTranscript,
                 silent, results, utterance, ttsTimer, received,
                 bufferTimeout, currentTime, nextStartTime, scheduled, plays,
                 replayTimer, serverGenerating, serverVars>>

\* the server's processTranscript reaches the end of its finally block
GenerationEnds ==
  /\ serverGenerating
  /\ serverGenerating' = FALSE
  /\ UNCHANGED <<isCallActive, wsState, wsOut, closeTimer, status,
                 recognitionRef, recState, endTimer, retryTimer,
                 interimTranscript, silent, results, isSpeaking, ttsQueue,
                 utterance, ttsTimer, isPlaying, audioQueue, pcmBuffer,
                 received, bufferTimeout, currentTime, nextStartTime,
                 scheduled, activeSources, plays, replayTimer, serverVars>>

\* playback of streamed audio during one call: the user says one final
\* utterance, the reply's audio arrives, the user may end the call
PlaybackNext ==
  \/ StartCall
  \/ OnResult(<<"o", "k">>, <<>>)
  \/ \E bytes \in AudioSizes : HandleAudioChunk(bytes)
  \/ BufferTimeout
  \/ ReplayTimer
  \/ \E i \in PlayIds : PlayResumes(i)
  \/ \E i \in PlayIds : PlayFinished(i)
  \/ Tick
  \/ StopCall
  \/ CloseTimer
  \/ WsClosed

PlaybackSpec == Init /\ [][PlaybackNext]_vars

\* recognition during one call with the server of this repository, which
\* sends audio and never tts_text: results, Turbo VAD, the restart timers
\* and the start of streamed playback; the audio clock stands still
RecognitionNext ==
  \/ StartCall
  \/ \E f \in FinalTexts, i \in InterimTexts : OnResult(f, i)
  \/ SilencePasses
  \/ TurboVAD
  \/ RecognitionEnds
  \/ EndTimer
  \/ RetryTimer
  \/ RecognitionCheck
  \/ HandleAudioChunk(1024)
  \/ BufferTimeout
  \/ \E i \in PlayIds : PlayResumes(i)
  \/ WsClosed
  \/ GenerationEnds

RecognitionSpec == Init /\ [][RecognitionNext]_vars

\* what the client sends as transcripts during one call: results and
\* Turbo VAD, with browser speech and streamed audio setting the flags
\* that Turbo VAD tests
TranscriptNext ==
  \/ StartCall
  \/ \E f \in FinalTexts, i \in InterimTexts : OnResult(f, i)
  \/ SilencePasses
  \/ TurboVAD
  \/ RecognitionEnds
  \/ RecognitionCheck
  \/ SpeakText
  \/ UtteranceEnds
  \/ TtsTimer
  \/ HandleAudioChunk(1024)
  \/ BufferTimeout
  \/ WsClosed

TranscriptSpec == Init /\ [][TranscriptNext]_vars

\* =================================================================== claims
\* request q hands an audio chunk to socket.send in this step
SendsAudio(q) ==
  /\ Len(sent'[q]) > Len(sent[q])
  /\ sent'[q][Len(sent'[q])].type = "audio"

\* request r is past "Reset state for new request"
Started(r) == pc[r] \in {"stream", "drain", "done"}

\* the assistant turns that request r has in the history
AssistantTurnsOf(r) ==
  {i \in DOMAIN messages : messages[i].role = "assistant" /\ messages[i].req = r}

\* C1: once a newer request has started generating, the request it
\* superseded sends no further audio chunk, so the chunks of two requests
\* never interleave on the socket.
C1_SupersededIsSilent ==
  [][\A q \in Req :
       (\E r \in Req : r > q /\ Started(r)) => ~SendsAudio(q)]_vars

\* C2: after stop_generation has arrived while a request was running, no
\* audio chunk of that request is sent at any later time.
C2_StopSilencesRequest ==
  [][\A q \in stopped : ~SendsAudio(q)]_vars

\* C3: whenever a transcript arrives while an earlier request is still
\* running, the cancellation flag is set to true before the new request
\* starts generating.
C3_ArrivalCancelsRunning ==
  [][\A r \in Req :
       (pc[r] = "idle" /\ pc'[r] # "idle" /\ \E q \in Req : Running(q))
         => shouldCancel']_vars

\* C4: a cancelled request (stopped or superseded) leaves in the history
\* either its complete assistant text or no assistant turn at all.
C4_CancelledTurnIsWhole ==
  \A r \in stopped \cup superseded :
    \A i \in AssistantTurnsOf(r) : messages[i].content = Flatten(response[r])

\* ---------------------------------------------------------------------
Range(f) == {f[i] : i \in DOMAIN f}
IsAudio(m) == m.type = "audio"
AudioOf(r) == SelectSeq(sent[r], IsAudio)
PosIn(seq, x) == CHOOSE i \in DOMAIN seq : seq[i] = x
IsPrefix(p, t) == Len(p) <= Len(t) /\ SubSeq(t, 1, Len(p)) = p
IsSuffix(p, t) == Len(p) <= Len(t) /\ SubSeq(t, Len(t) - Len(p) + 1, Len(t)) = p
NotSpace(c) == ~IsSpace(c)
StripSpace(t) == SelectSeq(t, NotSpace)

\* the sentences of a chunk sequence, in the order of their first chunk
RECURSIVE SentencesOf(_)
SentencesOf(a) ==
  IF a = <<>> THEN <<>>
  ELSE LET front == SentencesOf(SubSeq(a, 1, Len(a) - 1))
           t == a[Len(a)].sentence
       IN  IF t \in Range(front) THEN front ELSE Append(front, t)

\* C5: within one request the sentences are synthesized one at a time in
\* enqueue order: the chunks of a sentence all go out before any chunk of
\* the next one, the consumer takes the oldest sentence first, and the
\* sentences were enqueued in the order the token stream completed them.
C5_SentencesInOrder ==
  LET a == AudioOf(1)
  IN  /\ \A i \in DOMAIN a : a[i].sentence \in Range(enqueued[1])
      /\ \A i, j \in DOMAIN a :
           i < j =>
             \/ PosIn(enqueued[1], a[i].sentence) < PosIn(enqueued[1], a[j].sentence)
             \/ a[i].sentence = a[j].sentence /\ a[i].chunk < a[j].chunk
      /\ IsSuffix(sentenceQueue[1], enqueued[1])
      /\ IsPrefix(StripSpace(Flatten(enqueued[1])), StripSpace(assistantResponse[1]))

C5_Witness ==
  /\ Len(SentencesOf(AudioOf(1))) >= 2
  /\ \E i \in DOMAIN sent[1] : sent[1][i].chunk = 2

\* C6: a sentence whose synthesis throws is skipped: an uncancelled request
\* on an open socket ends normally with the chunks of exactly the other
\* sentences sent, in enqueue order (of three sentences with the second
\* failing, the first and the third).
NotFailed(t) == t \notin ttsFailed[1]

C6_FailedSentenceIsSkipped ==
  (pc[1] = "done" /\ streamResult[1] = "completed" /\ ~shouldCancel /\ socketOpen)
    => /\ SentencesOf(AudioOf(1)) = SelectSeq(enqueued[1], NotFailed)
       /\ AudioOf(1) = sent[1]
       /\ dpc[1] = "exit"
       /\ ~isGenerating

C6_Witness ==
  /\ pc[1] = "done" /\ streamResult[1] = "completed" /\ ~shouldCancel /\ socketOpen
  /\ enqueued[1] = << <<"a", ".">>, <<"b", ".">>, <<"c">> >>
  /\ ttsFailed[1] = { <<"b", ".">> }
  /\ SentencesOf(AudioOf(1)) = << <<"a", ".">>, <<"c">> >>

C8_LeavesGenerating ==
  /\ Running(1) ~> (pc[1] = "done" /\ ~isGenerating)
  /\ isGenerating ~> ~isGenerating

C8_Witness ==
  /\ pc[1] = "done" /\ ~isGenerating
  /\ streamResult[1] = "cancelled"
  /\ ttsFailed[1] # {}

\* the sentence units of t delivered as a single fragment
WholeUnits(t) ==
  LET seg == OnToken(<<>>, t)
  IN  seg.pushed \o FlushResidual(seg.buffer).pushed

\* C9: the sentence units do not depend on how the string is split into
\* fragments: every split yields the units of the unsplit string.
C9_SplitIndependent ==
  segDone => enqueued[1] = WholeUnits(segS)

\* C10: "Hello there. How are you?" in any split yields exactly the two
\* units "Hello there." and "How are you?".
C10_HelloThere ==
  (segDone /\ segS = HelloThere)
    => enqueued[1] = << SubSeq(HelloThere, 1, 12), SubSeq(HelloThere, 14, 25) >>

C10_Witness ==
  /\ segDone /\ segS = HelloThere
  /\ Len(enqueued[1]) = 2
  /\ enqueued[1][2] = <<"H", "o", "w", " ", "a", "r", "e", " ", "y", "o", "u", "?">>

\* C19: when generation fails for a request (streamChatCompletion raised),
\* no audio chunk of that request is handed to socket.send after the
\* failure: sentences queued or in synthesis then produce no further audio.
C19_NoAudioAfterFailure ==
  [][streamResult[1] = "raised" => ~SendsAudio(1)]_vars

\* C20: the dispatcher loop of a request eventually exits once the
\* request's generation has ended, be it by completion, cancellation or
\* failure; no loop keeps polling forever.
C20_DispatcherExits ==
  (streamResult[1] # "none") ~> (dpc[1] = "exit")

\* C18: every session (connection) has an identifier different from that
\* of every other session of the server, also when two sessions open at
\* the same clock reading, and no two sessions use the same sheet row.
C18_SessionIdsUnique ==
  \A j, k \in DOMAIN sessionIds :
    j # k => /\ sessionIds[j] # sessionIds[k]
             /\ sheetRowNumber[j] # 0 => sheetRowNumber[j] # sheetRowNumber[k]

\* the result is qualifying speech: final text, or interim text of more
\* than 2 characters
Qualifies(final, interim) == final # <<>> \/ Len(interim) > 2

\* the messages the client sends in this step
NewlySent == SubSeq(wsOut', Len(wsOut) + 1, Len(wsOut'))

\* C11: whenever the client recognises qualifying speech while agent
\* output is in progress (streamed audio playing, browser speech, or the
\* server still generating), it stops the playback, sends stop_generation
\* and returns to the listening state.
C11_BargeInStopsAgent ==
  [][\A f \in FinalTexts, i \in InterimTexts :
       (/\ OnResult(f, i) /\ Qualifies(f, i)
        /\ isPlaying \/ isSpeaking \/ serverGenerating)
         => /\ ~isPlaying' /\ ~isSpeaking'
            /\ activeSources' = {} /\ audioQueue' = <<>>
            /\ wsState = "open" => StopGeneration \in Range(NewlySent)
            /\ status' = "listening"]_vars

\* the texts a final result is sent as
FinalSent == {Trim(f \o <<" ">>) : f \in FinalTexts \ {<<>>}}

OneResponse ==
  /\ isCallActive
  /\ Cardinality({k \in DOMAIN wsOut : IsTranscript(wsOut[k])}) = 1

\* C13: the chunks of one response are scheduled back to back: each
\* starts exactly when the one before it ends, also when it arrived while
\* earlier chunks were playing, and none starts before the clock reading
\* at which it is scheduled.
C13_BackToBack ==
  OneResponse =>
    /\ \A k \in DOMAIN scheduled : scheduled[k].start >= scheduled[k].at
    /\ \A k \in 2..Len(scheduled) :
         scheduled[k].arrived < EndTime(scheduled[k - 1])
           => scheduled[k].start = EndTime(scheduled[k - 1])

\* C14: each chunk's scheduled start is at or after the audio clock at the
\* moment it is scheduled and at or after the start of every chunk
\* scheduled before it.
C14_StartsNeverRegress ==
  \A k \in DOMAIN scheduled :
    /\ scheduled[k].start >= scheduled[k].at
    /\ \A j \in 1..(k - 1) : scheduled[k].start >= scheduled[j].start

\* chunks scheduled in two playAudioQueue calls, the later call after the
\* clock has overtaken the watermark
C14_Witness ==
  /\ Len(scheduled) >= 3
  /\ \E k \in 2..Len(scheduled) :
       /\ scheduled[k].at > scheduled[k - 1].at
       /\ scheduled[k].start = scheduled[k].at + SafetyBufferMs
  /\ \E k \in 2..Len(scheduled) :
       /\ scheduled[k].at = scheduled[k - 1].at
       /\ scheduled[k].start = EndTime(scheduled[k - 1])

\* stopAgentSpeech() runs in this step: a barge-in or the end of the call
StopAgentSpeechRuns ==
  \/ StopCall
  \/ \E f \in FinalTexts, i \in InterimTexts :
       OnResult(f, i) /\ BargeIn(f, i)

\* C15: when stopAgentSpeech runs, every scheduled or playing source is
\* stopped, the chunk queue and the partial PCM buffer are emptied, the
\* playing and speaking flags are cleared, and the scheduling watermark is
\* reset, so that it does not lie after the current clock any more.
C15_StopResetsScheduler ==
  [][StopAgentSpeechRuns =>
       /\ activeSources' = {} /\ audioQueue' = <<>> /\ pcmBuffer' = 0
       /\ ~isPlaying' /\ ~isSpeaking'
       /\ nextStartTime' <= currentTime']_vars

\* recognition.start() succeeds in this step
RecognitionStarts == recState # "started" /\ recState' = "started"

C17_SilentAfterStopCall ==
  [][~isCallActive => scheduled' = scheduled]_vars

\* the collaborators and timers of the server respond, except the
\* text-generation stream, which may deliver nothing more for ever
StallSpec ==
  /\ Spec
  /\ WF_vars(PollTimer(1))
  /\ WF_vars((\E n \in 1..MaxChunks : TTSResponse(1, n)) \/ TTSFail(1))
  /\ WF_vars(ChunkTimer(1))

\* C21: when cancellation is requested while the request waits for the
\* next fragment with its sentence queue empty, the request ends even if
\* no further fragment ever arrives: processTranscript finishes and the
\* dispatcher loop exits.
C21_CancelEndsStalledRequest ==
  (shouldCancel /\ pc[1] = "stream" /\ dpc[1] = "poll" /\ sentenceQueue[1] = <<>>)
    ~> (pc[1] = "done" /\ dpc[1] = "exit")

\* C22: streamChatCompletion polls checkCancellation on every fragment it
\* receives, before passing it on: when the check is true the fragment is
\* not given to onToken (nothing is accumulated, nothing reaches the
\* segmenter) and the call returns; once the call has ended, no later
\* fragment is consumed or passed on.
C22_CancelledFragmentIsDropped ==
  [][/\ (StreamChunk(1) /\ shouldCancel) =>
          /\ streamResult'[1] = "cancelled"
          /\ pc'[1] \in {"drain", "done"}
          /\ messages' = UpdatedMessages(1)
          /\ currentSentenceBuffer' = FlushResidual(currentSentenceBuffer).buffer
          /\ enqueued'[1] = enqueued[1] \o FlushResidual(currentSentenceBuffer).pushed
     /\ (shouldCancel \/ streamResult[1] # "none") =>
          /\ tokIdx'[1] = tokIdx[1]
          /\ assistantResponse'[1] = assistantResponse[1]]_vars

C22_Witness ==
  /\ streamResult[1] = "cancelled"
  /\ 0 < tokIdx[1] /\ tokIdx[1] < Len(response[1])
  /\ assistantResponse[1] # <<>>
  /\ assistantResponse[1] # Flatten(response[1])

\* C23: the sentence buffer is empty whenever a request starts its token
\* stream, whatever became of the requests before it, so no sentence unit
\* mixes the text of two responses.
C23_BufferEmptyAtStart ==
  [][\A r \in Req :
       (pc[r] # "stream" /\ pc'[r] = "stream") => currentSentenceBuffer' = <<>>]_vars

\* text is the units in order, with nothing but whitespace before, between
\* and after them
RECURSIVE MadeOf(_, _)
MadeOf(text, units) ==
  IF units = <<>> THEN Trim(text) = <<>>
  ELSE LET t == TrimLeft(text)
       IN  /\ IsPrefix(Head(units), t)
           /\ MadeOf(SubSeq(t, Len(Head(units)) + 1, Len(t)), Tail(units))

\* C24: a generation that starts with an empty buffer and runs to its end
\* enqueues only non-empty, trimmed units; what is left without terminal
\* punctuation at the end becomes the last unit; and the units in queue
\* order are the response text with only whitespace between units
\* removed.
C24_UnitsAreTheText ==
  segDone =>
    /\ \A i \in DOMAIN enqueued[1] :
         enqueued[1][i] # <<>> /\ Trim(enqueued[1][i]) = enqueued[1][i]
    /\ (Trim(segS) # <<>> /\ ~IsTerminal(Trim(segS)[Len(Trim(segS))])) =>
         /\ enqueued[1] # <<>>
         /\ IsSuffix(enqueued[1][Len(enqueued[1])], Trim(segS))
    /\ MadeOf(segS, enqueued[1])
    /\ Trim(currentSentenceBuffer) = <<>>

C24_Witness ==
  /\ segDone
  /\ Len(enqueued[1]) = 2
  /\ ~IsTerminal(enqueued[1][2][Len(enqueued[1][2])])
  /\ Len(Flatten(enqueued[1])) < Len(segS)

\* playback begins in this step: playAudioQueue passes its entry test
PlaybackBegins == ~isPlaying /\ isPlaying'

\* the chunks the queue holds when this step's playAudioQueue call begins
QueuedAtStart == Len(audioQueue') + (Len(scheduled') - Len(scheduled))

\* handleAudioChunk finds the jitter buffer full
DepthReached ==
  /\ \E bytes \in AudioSizes : HandleAudioChunk(bytes)
  /\ QueuedAtStart >= MIN_CHUNKS_TO_START

\* the safety timeout armed when a chunk was queued fires on a queue that
\* still holds a chunk
TimeoutElapsed == BufferTimeout /\ audioQueue # <<>>

\* a wait that ends in a call of playAudioQueue is pending
WaitPending == bufferTimeout \/ replayTimer

C26_GeneratingWhileActive ==
  \A r \in Req : pc[r] \in {"stream", "drain"} => isGenerating

\* request r ran to the end of its token stream and nothing asked for its
\* cancellation while it ran
CompletedUncancelled(r) ==
  /\ pc[r] = "done" /\ streamResult[r] = "completed"
  /\ r \notin stopped \cup superseded

\* C27: the history keeps the user turn and the assistant turn of every
\* request that completed uncancelled, in the order the transcripts
\* arrived; no such turn is lost because another request finished later.
C27_CompletedTurnsKept ==
  /\ \A r \in Req :
       CompletedUncancelled(r) =>
         \E i \in DOMAIN messages :
           /\ messages[i] = UserTurn(r)
           /\ i + 1 \in DOMAIN messages
           /\ messages[i + 1] = AssistantTurn(r, Flatten(response[r]))
  /\ \A i, j \in DOMAIN messages :
       (/\ i < j
        /\ CompletedUncancelled(messages[i].req)
        /\ CompletedUncancelled(messages[j].req)) => messages[i].req <= messages[j].req

\* the i-th pending playAudioQueue run comes back from its wait for the
\* end of its last source while a run that began after it is pending
OlderRunEnds(i) ==
  /\ i \in DOMAIN plays /\ i < Len(plays)
  /\ PlayFinished(i)

\* C28: a playAudioQueue run that stopAgentSpeech interrupted leaves
\* isPlaying, the status, the recognition and the replay timer alone when
\* it ends beside a newer run, so isPlaying stays true while the newer
\* run's audio has not finished.
C28_InterruptedRunIsInert ==
  [][\A i \in PlayIds :
       OlderRunEnds(i) =>
         /\ isPlaying' = isPlaying /\ status' = status
         /\ recState' = recState /\ replayTimer' = replayTimer]_vars

\* C29: when the WebSocket closes while a call is active, ws.onclose ends
\* the call: isCallActive becomes false, the status idle, playback and
\* browser speech stop and the recognition is stopped and dropped.
C29_CloseEndsCall ==
  [][(WsClosed /\ isCallActive) =>
       /\ ~isCallActive' /\ status' = "idle"
       /\ ~isPlaying' /\ ~isSpeaking' /\ activeSources' = {}
       /\ recState' # "started" /\ ~recognitionRef']_vars

\* the rows that the calls of connection k appended to the sheet
RowsCreated(k) ==
  {fieldUpdates[u].rowNumber : u \in {v \in DOMAIN fieldUpdates :
                                       fieldUpdates[v].k = k /\ fieldUpdates[v].created}}

\* C30: all sheet writes of one session go to a single row: also when
\* several field updates of the session are in progress at once, at most
\* one row is created for the session and every update writes to that row.
C30_SingleRowPerSession ==
  \A k \in DOMAIN sessionIds :
    /\ Cardinality(RowsCreated(k)) <= 1
    /\ \A c, d \in sheetCells : (c.k = k /\ d.k = k) => c.row = d.row

====
